---- MODULE Spec2Model ----
(***************************************************************************)
(* State-machine model of the NEAR price oracle contract (src/src/lib.rs). *)
(*                                                                         *)
(* The contract state is the PriceOracle struct: owner, prices (a HashMap  *)
(* from source name to PriceReport), last_update and min_sources.  The     *)
(* host supplies the calling account and the block timestamp.  Every       *)
(* public method is one atomic action; a panicking call leaves the         *)
(* contract state untouched (the host rolls the call back).                *)
(*                                                                         *)
(* Integer widths are scaled down: u8 is modelled with U8Bits bits and     *)
(* u128 with U128Bits bits, so that the `as u8` cast and the u128 sum      *)
(* reach their limits with a handful of sources.                           *)
(***************************************************************************)
EXTENDS Integers, FiniteSets, Sequences, TLC

\* Scaled width of the u8 type (min_sources, get_source_count).
U8Bits == 2

\* Scaled width of the u128 type (price_usd, the sum in get_price).
U128Bits == 3

U8Mod == 2 ^ U8Bits

U8Max == U8Mod - 1

U128Mod == 2 ^ U128Bits

U128Max == U128Mod - 1

\* Divisor applied to env::block_timestamp() in report_price.
TimestampDivisor == 1000000

\* Initial value of min_sources.
DefaultMinSources == 3

\* The account that deploys the contract.
Deployer == "oracle.near"

\* Accounts that call the contract.
Accounts == {Deployer, "alice.near"}

\* Source names passed to report_price.
Sources == {"coingecko", "binance", "coinmarketcap"}

\* A source set large enough for the source count to leave the u8 range.
ManySources == Sources \cup {"kraken"}

\* price_usd arguments passed to report_price.
Prices == {2, U128Max - 2}

\* Readings of the host's nanosecond clock.
ClockValues == {1500000, 1500000000}

\* Marker for "no call recorded".
NoCall == [source |-> "none", caller |-> "none", price_usd |-> 0, block_timestamp |-> 0]

\* The inputs of one report_price call.
Call(source, caller, price_usd, clock) ==
    [source |-> source, caller |-> caller, price_usd |-> price_usd, block_timestamp |-> clock]

VARIABLES
    owner,            \* PriceOracle.owner
    prices,           \* PriceOracle.prices, as a set of (key, value) entries
    last_update,      \* PriceOracle.last_update
    min_sources,      \* PriceOracle.min_sources
    block_timestamp,  \* env::block_timestamp() of the current block
    ret,              \* method and outcome of the most recent call
    creator,          \* history: the account that created the contract
    reported,         \* history: per source, the inputs of the most recent
                      \*   report_price call since the last clear_prices
    lastCall,         \* history: the inputs of the most recent report_price call
    replaced          \* history: the most recent report_price call was made for a
                      \*   source already reported since the last clear_prices

state == <<owner, prices, last_update, min_sources>>

vars == <<owner, prices, last_update, min_sources, block_timestamp, ret, creator, reported, lastCall, replaced>>

----------------------------------------------------------------------------
(* Helpers *)

\* The PriceReport struct.
PriceReport(source, price_usd, timestamp, reporter) ==
    [source |-> source, price_usd |-> price_usd, timestamp |-> timestamp, reporter |-> reporter]

\* HashMap::len
HashMapLen(m) == Cardinality(m)

\* HashMap::insert with a duplicate-keeping slip: the old entry is not replaced.
HashMapInsertNoReplace(m, k, v) ==
    m \cup {[key |-> k, value |-> v]}

\* HashMap::insert that rebuilds the map from the new entry alone: the other
\* keys are dropped.
HashMapInsertEvict(m, k, v) ==
    {[key |-> k, value |-> v]}

\* HashMap::insert: the entry stored under k, if any, is replaced.
HashMapInsert(m, k, v) ==
    {e \in m : e.key # k} \cup {[key |-> k, value |-> v]}

\* HashMap::values
HashMapValues(m) == {e.value : e \in m}

\* Exact (unbounded) sum of price_usd over the entries of a map.
RECURSIVE SumPrices(_)
SumPrices(m) ==
    IF m = {} THEN 0
    ELSE LET e == CHOOSE x \in m : TRUE
         IN  e.value.price_usd + SumPrices(m \ {e})

\* The outcome record of a call.
Outcome(op, status, value) == [op |-> op, status |-> status, value |-> value]

\* Conversion of the host clock to the stored timestamp, as seconds.
TimestampSeconds(t) == t \div 1000000000

\* Conversion of the host clock to the stored timestamp.
Timestamp(t) == t \div TimestampDivisor

----------------------------------------------------------------------------
(* View methods *)

get_price_details == HashMapValues(prices)

get_source_count == HashMapLen(prices) % U8Mod

is_valid == HashMapLen(prices) >= min_sources

get_last_update == last_update

get_min_sources == min_sources

\* The outcomes get_price can produce in the current state.  An overflowing
\* sum panics when the crate is built with overflow checks and wraps
\* otherwise; both builds are possible.
get_price_outcomes ==
    LET len   == HashMapLen(prices)
        total == SumPrices(prices)
        count == len
    IN  IF ~(len >= min_sources)
        THEN {Outcome("get_price", "InsufficientSources", 0)}
        ELSE IF total > U128Max
        THEN {Outcome("get_price", "Overflow", 0),
              Outcome("get_price", "ok", (total % U128Mod) \div count)}
        ELSE IF count = 0
        THEN {Outcome("get_price", "DivideByZero", 0)}
        ELSE {Outcome("get_price", "ok", total \div count)}

----------------------------------------------------------------------------
(* Initial state: Default for PriceOracle *)

\* Default as the derive macro would build it: min_sources starts at zero.
Init_derived ==
    /\ creator = Deployer
    /\ owner = creator
    /\ prices = {}
    /\ last_update = 0
    /\ min_sources = 0
    /\ block_timestamp \in ClockValues
    /\ ret = Outcome("default", "ok", 0)
    /\ reported = [s \in ManySources |-> NoCall]
    /\ lastCall = NoCall
    /\ replaced = FALSE

Init ==
    /\ creator = Deployer
    /\ owner = creator
    /\ prices = {}
    /\ last_update = 0
    /\ min_sources = DefaultMinSources
    /\ block_timestamp \in ClockValues
    /\ ret = Outcome("default", "ok", 0)
    /\ reported = [s \in ManySources |-> NoCall]
    /\ lastCall = NoCall
    /\ replaced = FALSE

----------------------------------------------------------------------------
(* Methods *)

\* init that rejects a threshold of zero and keeps the old one.
init_nonzero(caller, new_min_sources) ==
    IF caller # owner
    THEN /\ ret' = Outcome("init", "Unauthorized", 0)
         /\ UNCHANGED <<owner, prices, last_update, min_sources, block_timestamp, creator, reported, lastCall, replaced>>
    ELSE /\ ret' = Outcome("init", "ok", 0)
         /\ min_sources' = IF new_min_sources = 0 THEN min_sources ELSE new_min_sources
         /\ UNCHANGED <<owner, prices, last_update, block_timestamp, creator, reported, lastCall, replaced>>

\* init written as a constructor: it binds owner to its caller.
init_rebind(caller, new_min_sources) ==
    /\ owner' = caller
    /\ min_sources' = new_min_sources
    /\ ret' = Outcome("init", "ok", 0)
    /\ UNCHANGED <<prices, last_update, block_timestamp, creator, reported, lastCall, replaced>>

init(caller, new_min_sources) ==
    IF caller # owner
    THEN /\ ret' = Outcome("init", "Unauthorized", 0)
         /\ UNCHANGED <<owner, prices, last_update, min_sources, block_timestamp, creator, reported, lastCall, replaced>>
    ELSE /\ ret' = Outcome("init", "ok", 0)
         /\ min_sources' = new_min_sources
         /\ UNCHANGED <<owner, prices, last_update, block_timestamp, creator, reported, lastCall, replaced>>

\* report_price that stores the undivided clock reading in last_update.
report_price_raw_clock(caller, source, price_usd) ==
    LET reporter  == caller
        timestamp == Timestamp(block_timestamp)
        report    == PriceReport(source, price_usd, timestamp, reporter)
        call      == Call(source, caller, price_usd, block_timestamp)
    IN  /\ ret' = Outcome("report_price", "ok", 0)
        /\ lastCall' = call
        /\ prices' = HashMapInsert(prices, source, report)
        /\ last_update' = block_timestamp
        /\ reported' = [reported EXCEPT ![source] = call]
        /\ replaced' = (reported[source] # NoCall)
        /\ UNCHANGED <<owner, min_sources, block_timestamp, creator>>

\* report_price restricted to the owner.
report_price_owner_only(caller, source, price_usd) ==
    LET reporter  == caller
        timestamp == Timestamp(block_timestamp)
        report    == PriceReport(source, price_usd, timestamp, reporter)
        call      == Call(source, caller, price_usd, block_timestamp)
    IN  IF caller # owner
        THEN /\ ret' = Outcome("report_price", "Unauthorized", 0)
             /\ UNCHANGED <<owner, prices, last_update, min_sources, block_timestamp, creator, reported, lastCall, replaced>>
        ELSE /\ ret' = Outcome("report_price", "ok", 0)
             /\ lastCall' = call
             /\ prices' = HashMapInsert(prices, source, report)
             /\ last_update' = timestamp
             /\ reported' = [reported EXCEPT ![source] = call]
             /\ replaced' = (reported[source] # NoCall)
             /\ UNCHANGED <<owner, min_sources, block_timestamp, creator>>

\* report_price that forgets to refresh last_update.
report_price_stale_update(caller, source, price_usd) ==
    LET reporter  == caller
        timestamp == Timestamp(block_timestamp)
        report    == PriceReport(source, price_usd, timestamp, reporter)
        call      == Call(source, caller, price_usd, block_timestamp)
    IN  /\ ret' = Outcome("report_price", "ok", 0)
        /\ lastCall' = call
        /\ prices' = HashMapInsert(prices, source, report)
        /\ reported' = [reported EXCEPT ![source] = call]
        /\ replaced' = (reported[source] # NoCall)
        /\ UNCHANGED <<owner, last_update, min_sources, block_timestamp, creator>>

report_price(caller, source, price_usd) ==
    LET reporter  == caller
        timestamp == Timestamp(block_timestamp)
        report    == PriceReport(source, price_usd, timestamp, reporter)
        call      == Call(source, caller, price_usd, block_timestamp)
    IN  /\ ret' = Outcome("report_price", "ok", 0)
        /\ lastCall' = call
        /\ prices' = HashMapInsert(prices, source, report)
        /\ last_update' = timestamp
        /\ reported' = [reported EXCEPT ![source] = call]
        /\ replaced' = (reported[source] # NoCall)
        /\ UNCHANGED <<owner, min_sources, block_timestamp, creator>>

get_price(caller) ==
    /\ ret' \in get_price_outcomes
    /\ UNCHANGED <<owner, prices, last_update, min_sources, block_timestamp, creator, reported, lastCall, replaced>>

\* set_min_sources without the owner assertion.
set_min_sources_unchecked(caller, new_min_sources) ==
    /\ min_sources' = new_min_sources
    /\ ret' = Outcome("set_min_sources", "ok", 0)
    /\ UNCHANGED <<owner, prices, last_update, block_timestamp, creator, reported, lastCall, replaced>>

set_min_sources(caller, new_min_sources) ==
    IF caller # owner
    THEN /\ ret' = Outcome("set_min_sources", "Unauthorized", 0)
         /\ UNCHANGED <<owner, prices, last_update, min_sources, block_timestamp, creator, reported, lastCall, replaced>>
    ELSE /\ ret' = Outcome("set_min_sources", "ok", 0)
         /\ min_sources' = new_min_sources
         /\ UNCHANGED <<owner, prices, last_update, block_timestamp, creator, reported, lastCall, replaced>>

\* clear_prices without the owner assertion.
clear_prices_unchecked(caller) ==
    /\ prices' = {}
    /\ last_update' = 0
    /\ ret' = Outcome("clear_prices", "ok", 0)
    /\ reported' = [s \in ManySources |-> NoCall]
    /\ UNCHANGED <<owner, min_sources, block_timestamp, creator, lastCall, replaced>>

\* clear_prices that empties the map but keeps last_update.
clear_prices_keep_last_update(caller) ==
    IF caller # owner
    THEN /\ ret' = Outcome("clear_prices", "Unauthorized", 0)
         /\ UNCHANGED <<owner, prices, last_update, min_sources, block_timestamp, creator, reported, lastCall, replaced>>
    ELSE /\ ret' = Outcome("clear_prices", "ok", 0)
         /\ prices' = {}
         /\ reported' = [s \in ManySources |-> NoCall]
         /\ UNCHANGED <<owner, last_update, min_sources, block_timestamp, creator, lastCall, replaced>>

clear_prices(caller) ==
    IF caller # owner
    THEN /\ ret' = Outcome("clear_prices", "Unauthorized", 0)
         /\ UNCHANGED <<owner, prices, last_update, min_sources, block_timestamp, creator, reported, lastCall, replaced>>
    ELSE /\ ret' = Outcome("clear_prices", "ok", 0)
         /\ prices' = {}
         /\ last_update' = 0
         /\ reported' = [s \in ManySources |-> NoCall]
         /\ UNCHANGED <<owner, min_sources, block_timestamp, creator, lastCall, replaced>>

\* The host moves to a later block: the clock advances.
AdvanceClock ==
    /\ \E t \in ClockValues : t > block_timestamp /\ block_timestamp' = t
    /\ UNCHANGED <<owner, prices, last_update, min_sources, ret, creator, reported, lastCall, replaced>>

\* One step of the contract or the host, with the callers, sources and
\* prices of the calls drawn from the given sets.
NextFor(callers, sources, amounts) ==
    \/ \E caller \in callers, v \in 0..U8Max : init(caller, v)
    \/ \E caller \in callers, source \in sources, price_usd \in amounts :
          report_price(caller, source, price_usd)
    \/ \E caller \in callers : get_price(caller)
    \/ \E caller \in callers, v \in 0..U8Max : set_min_sources(caller, v)
    \/ \E caller \in callers : clear_prices(caller)
    \/ AdvanceClock

Next == NextFor(Accounts, Sources, Prices)

Spec == Init /\ [][Next]_vars

\* The deployer alone reports one price under many source names.
NextManySources == NextFor({Deployer}, ManySources, {2})

SpecManySources == Init /\ [][NextManySources]_vars

----------------------------------------------------------------------------
(* Properties *)

\* The reports stored under source s.
ReportsOf(s) == {r \in get_price_details : r.source = s}

\* The sources reported since the last clear_prices.
ReportedSources == {s \in ManySources : reported[s] # NoCall}

\* C1: whenever the number of stored reports is >= min_sources (min_sources = 0
\* included), get_price() succeeds and returns floor(sum of price_usd / number
\* of reports).
C1_GetPriceReturnsMean ==
    (ret.op = "get_price" /\ HashMapLen(prices) >= min_sources) =>
        /\ ret.status = "ok"
        /\ IF HashMapLen(prices) > 0
           THEN ret.value = SumPrices(prices) \div HashMapLen(prices)
           ELSE TRUE

\* C2: get_price() fails with InsufficientSources whenever get_source_count() <
\* get_min_sources(), and does not fail whenever get_source_count() >=
\* get_min_sources().
C2_FailsExactlyBelowQuorum ==
    ret.op = "get_price" =>
        /\ (get_source_count < get_min_sources) => ret.status = "InsufficientSources"
        /\ (get_source_count >= get_min_sources) => ret.status = "ok"

\* C3: is_valid() is true if and only if a get_price() call made in the same
\* state succeeds.
C3_IsValidIffGetPriceSucceeds ==
    ret.op = "get_price" => (is_valid <=> ret.status = "ok")

\* C4: for every caller other than the owner, init, set_min_sources and
\* clear_prices fail with Unauthorized and leave owner, prices, last_update and
\* min_sources as they were.
C4_NonOwnerRejected ==
    [][\A caller \in Accounts :
          caller # owner =>
            /\ clear_prices(caller) =>
                  (ret' = Outcome("clear_prices", "Unauthorized", 0) /\ UNCHANGED state)
            /\ (\E v \in 0..U8Max : init(caller, v)) =>
                  (ret' = Outcome("init", "Unauthorized", 0) /\ UNCHANGED state)
            /\ (\E v \in 0..U8Max : set_min_sources(caller, v)) =>
                  (ret' = Outcome("set_min_sources", "Unauthorized", 0)
                   /\ UNCHANGED state)]_vars

\* C4 witness: a non-owner's clear_prices was rejected while reports were stored
\* and the threshold had been changed by the owner.
C4_Witness ==
    /\ ret = Outcome("clear_prices", "Unauthorized", 0)
    /\ prices # {}
    /\ min_sources # DefaultMinSources

\* C5: with no clear_prices in between, get_source_count() is the number of
\* distinct source strings passed to report_price so far.
C5_CountIsDistinctSources ==
    get_source_count = Cardinality(ReportedSources)

\* C6: get_price_details() holds at most one report per source, and the report
\* of a source is the one built by the most recent report_price call for that
\* source since the last clear_prices (its price, its caller, its time).
C6_LatestReportPerSource ==
    /\ \A r1 \in get_price_details, r2 \in get_price_details :
          r1.source = r2.source => r1 = r2
    /\ Cardinality(get_price_details) = HashMapLen(prices)
    /\ \A s \in ManySources :
          IF reported[s] = NoCall
          THEN ReportsOf(s) = {}
          ELSE ReportsOf(s) =
                 {PriceReport(s, reported[s].price_usd,
                              Timestamp(reported[s].block_timestamp),
                              reported[s].caller)}

\* C6 witness: a source was reported again, by another account at another
\* price, and other sources are stored beside it.
C6_Witness ==
    /\ ret.op = "report_price"
    /\ replaced
    /\ lastCall.price_usd = 2
    /\ lastCall.caller # owner
    /\ Cardinality(prices) >= 2

\* C7: last_update is the timestamp of the most recent report_price call when a
\* report is stored, and 0 when none is stored.
C7_LastUpdateTracksLatestCall ==
    IF prices = {}
    THEN last_update = 0
    ELSE /\ lastCall # NoCall
         /\ last_update = Timestamp(lastCall.block_timestamp)
         /\ \A r \in ReportsOf(lastCall.source) : last_update = r.timestamp

\* C7 witness: reports of different ages are stored and last_update is the
\* newer timestamp.
C7_Witness ==
    /\ ret.op = "report_price"
    /\ \E r \in get_price_details : r.timestamp < last_update

\* C8: the timestamp stored in the new PriceReport and in last_update is the
\* clock reading in whole seconds, floor(t / 1,000,000,000).
C8_TimestampInSeconds ==
    ret.op = "report_price" =>
        /\ last_update = TimestampSeconds(lastCall.block_timestamp)
        /\ \A r \in ReportsOf(lastCall.source) :
              r.timestamp = TimestampSeconds(lastCall.block_timestamp)

\* C9: when the sum of the stored prices exceeds the largest value of the sum's
\* integer type, get_price() fails; it never returns a value.
C9_OverflowFails ==
    (ret.op = "get_price" /\ SumPrices(prices) > U128Max) => ret.status # "ok"

\* C10: a clear_prices call by the owner succeeds and leaves get_source_count()
\* = 0, get_price_details() empty and get_last_update() = 0, with owner and
\* min_sources unchanged.
C10_OwnerClearResets ==
    [][\A caller \in Accounts :
          (caller = owner /\ clear_prices(caller)) =>
            /\ ret' = Outcome("clear_prices", "ok", 0)
            /\ get_source_count' = 0
            /\ get_price_details' = {}
            /\ get_last_update' = 0
            /\ owner' = owner
            /\ min_sources' = min_sources]_vars

\* C10 witness: the owner cleared the oracle after reports had been made and
\* the threshold changed.
C10_Witness ==
    /\ ret = Outcome("clear_prices", "ok", 0)
    /\ lastCall # NoCall
    /\ min_sources # DefaultMinSources
    /\ get_source_count = 0

\* C11: when the owner calls set_min_sources(v) or init(v) with any v of the u8
\* range, the call succeeds, get_min_sources() returns v afterwards, and
\* prices, last_update and owner are unchanged.
C11_OwnerSetsThreshold ==
    /\ [](\A v \in 0..U8Max :
            ENABLED init(owner, v) /\ ENABLED set_min_sources(owner, v))
    /\ [][\A caller \in Accounts, v \in 0..U8Max :
            caller = owner =>
              /\ init(caller, v) =>
                    /\ ret' = Outcome("init", "ok", 0)
                    /\ get_min_sources' = v
                    /\ UNCHANGED <<prices, last_update, owner>>
              /\ set_min_sources(caller, v) =>
                    /\ ret' = Outcome("set_min_sources", "ok", 0)
                    /\ get_min_sources' = v
                    /\ UNCHANGED <<prices, last_update, owner>>]_vars

\* C11 witness: the owner set the threshold to zero through init while reports
\* were stored.
C11_Witness ==
    /\ ret = Outcome("init", "ok", 0)
    /\ get_min_sources = 0
    /\ prices # {}
    /\ last_update # 0

\* C12: after any sequence of operations by any callers, owner is still the
\* account that created the contract.
C12_OwnerImmutable ==
    owner = creator

\* C12 witness: owner-only calls by another account were attempted and reports
\* by another account were accepted.
C12_Witness ==
    /\ ret = Outcome("init", "Unauthorized", 0)
    /\ lastCall # NoCall
    /\ lastCall.caller # creator
    /\ min_sources # DefaultMinSources

\* C13: a freshly created contract has owner = the creating account, no stored
\* reports, last_update = 0 and min_sources = 3; is_valid() is false and
\* get_price() fails until reports arrive or the owner lowers min_sources.
C13_FreshContract ==
    /\ ret.op = "default" =>
          /\ owner = creator
          /\ get_source_count = 0
          /\ get_price_details = {}
          /\ get_last_update = 0
          /\ get_min_sources = 3
          /\ ~is_valid
          /\ \A o \in get_price_outcomes : o.status = "InsufficientSources"
    /\ (lastCall = NoCall /\ min_sources >= 3) =>
          /\ ~is_valid
          /\ ret.op = "get_price" => ret.status = "InsufficientSources"

\* C13 witness: get_price was called, and failed, on a contract that never
\* received a report and still has the default threshold.
C13_Witness ==
    /\ ret = Outcome("get_price", "InsufficientSources", 0)
    /\ lastCall = NoCall
    /\ get_min_sources = 3
    /\ owner = creator

\* The source names stored in prices.
StoredSources == {e.key : e \in prices}

\* C14: every step other than a successful clear_prices by the owner keeps all
\* stored source keys, so the number of stored sources never decreases
\* between clears.
C14_NoSingleDeletion ==
    [][(~ \E caller \in Accounts : caller = owner /\ clear_prices(caller)) =>
          /\ StoredSources \subseteq StoredSources'
          /\ HashMapLen(prices') >= HashMapLen(prices)]_vars

\* C14 witness: a source was reported again while three sources were stored,
\* and all three are still there.
C14_Witness ==
    /\ ret.op = "report_price"
    /\ replaced
    /\ StoredSources = Sources

\* The entries of a map stored under keys other than k.
OtherEntries(m, k) == {e \in m : e.key # k}

\* C15: report_price(s, p) succeeds for every caller, source and price in
\* every reachable state and changes only the entry for s and last_update: the
\* reports under every other source, owner and min_sources stay the same.
C15_ReportPriceFrame ==
    /\ [](\A caller \in Accounts, s \in Sources, p \in Prices :
            ENABLED report_price(caller, s, p))
    /\ [][\A caller \in Accounts, s \in Sources, p \in Prices :
            report_price(caller, s, p) =>
              /\ ret' = Outcome("report_price", "ok", 0)
              /\ OtherEntries(prices', s) = OtherEntries(prices, s)
              /\ owner' = owner
              /\ min_sources' = min_sources]_vars

\* C15 witness: an account other than the owner reported a new source beside
\* two stored ones.
C15_Witness ==
    /\ ret.op = "report_price"
    /\ lastCall.caller # owner
    /\ ~replaced
    /\ Cardinality(OtherEntries(prices, lastCall.source)) = 2

\* C16: if is_valid() is true it is still true after any operation invoked by
\* a non-owner account; it becomes false only through a successful
\* clear_prices, set_min_sources or init by the owner.
C16_QuorumLostOnlyByOwner ==
    [][(is_valid /\ ~is_valid') =>
          /\ ret'.status = "ok"
          /\ \E v \in 0..U8Max :
                \/ clear_prices(owner)
                \/ set_min_sources(owner, v)
                \/ init(owner, v)
          /\ \A caller \in Accounts :
                caller # owner =>
                  /\ ~ get_price(caller)
                  /\ ~ clear_prices(caller)
                  /\ \A v \in 0..U8Max :
                        ~ init(caller, v) /\ ~ set_min_sources(caller, v)
                  /\ \A s \in Sources, p \in Prices :
                        ~ report_price(caller, s, p)]_vars

\* C16 witness: with exactly the required three sources stored, another
\* account reported one of them again and the oracle is still valid.
C16_Witness ==
    /\ ret.op = "report_price"
    /\ lastCall.caller # owner
    /\ replaced
    /\ HashMapLen(prices) = 3
    /\ min_sources = 3
    /\ is_valid

\* C17: with a monotonically non-decreasing host clock, last_update is >= the
\* timestamp of every stored report, and when a report is stored it equals the
\* largest stored timestamp.
C17_LastUpdateIsMaxTimestamp ==
    /\ \A r \in get_price_details : last_update >= r.timestamp
    /\ prices # {} => \E r \in get_price_details : last_update = r.timestamp

\* C17 witness: three reports of two different ages are stored.
C17_Witness ==
    /\ HashMapLen(prices) = 3
    /\ Cardinality({r.timestamp : r \in get_price_details}) = 2
    /\ last_update = Timestamp(block_timestamp)

\* C18: whenever get_price() succeeds, the returned value lies between the
\* smallest and the largest stored price_usd (inclusive).
C18_MeanWithinRange ==
    (ret.op = "get_price" /\ ret.status = "ok") =>
        /\ \E r \in get_price_details : r.price_usd <= ret.value
        /\ \E r \in get_price_details : r.price_usd >= ret.value

====
